---- MODULE Spec2Model ----
(***************************************************************************)
(* Model of prefect_azure/cosmos_db.py: the three Cosmos DB tasks          *)
(* (cosmos_db_query_items, cosmos_db_read_item, cosmos_db_create_item)     *)
(* and the helper _get_container_client.                                   *)
(*                                                                         *)
(* A task call runs its synchronous prefix on the cooperative context      *)
(* (the event loop), hands a functools.partial to anyio's                  *)
(* to_thread.run_sync, is suspended while a worker thread runs the         *)
(* partial, and is resumed with the partial's outcome.  The Azure SDK and  *)
(* the credentials block are the environment: every method of theirs may   *)
(* return or raise.                                                        *)
(*                                                                         *)
(* The function bodies are modelled statement by statement.  Line 170      *)
(* declares cosmos_db_create_item with "def" although line 239 awaits;     *)
(* the model gives line 239 the meaning of the statement written there.    *)
(***************************************************************************)
EXTENDS Integers, Sequences, FiniteSets, TLC

\* Number of task calls that overlap in time in an "overlapping" run.
NumTasks == 2

Tasks == 1..NumTasks

\* Marks an argument the caller did not supply.
Omitted == "<omitted>"

\* Python's None.
None == "None"

\* First positional argument: the query string, the item id or the body.
Args == {"SELECT * FROM c where c.age >= @age", "item-1"}

ParameterLists == {"[@age=44]", "[]"}

PartitionKeys == {"pk-1", "pk-2"}

\* **kwargs, as a set of <<name, value>> pairs.
KwargSets == {{}, {<<"enable_cross_partition_query", "True">>}}

\* A container or database reference: its name, its property mapping or a proxy.
RefForms == {"name", "properties", "proxy"}

ContainerRefs == {[form |-> f, id |-> "Persons"] : f \in RefForms}

DatabaseRefs == {[form |-> f, id |-> "SampleDB"] : f \in RefForms}

\* The CosmosDbAzureCredentials blocks a caller may pass, by name.
Credentials == {"azure_credentials", "other_credentials"}

\* What a service method may return, and what the SDK may raise.
Results == {"result-1", "result-2"}

Errors == {"CosmosHttpResponseError", "CosmosResourceNotFoundError"}

Returned(v) == [kind |-> "return", val |-> v]

Raised(e) == [kind |-> "raise", val |-> e]

Pending == [kind |-> "pending", val |-> None]

NoResult == [kind |-> "none", val |-> None]

VARIABLES
    pc,         \* pc[t]: "idle", "running", "awaiting", "returned" or "raised"
    call,       \* call[t]: the arguments the caller passed
    trace,      \* trace[t]: the invocations call t made on its collaborators, in order
    job,        \* job[t]: the callable handed to to_thread.run_sync and its progress
    result,     \* result[t]: what the caller of t observes
    loop,       \* the task running on the cooperative context, 0 when it is free
    credState,  \* credState[c]: the fields of credentials block c
    run         \* "single": one call, any arguments; "overlapping": NumTasks calls

vars == <<pc, call, trace, job, result, loop, credState, run>>

NoCall ==
    [op |-> "none", arg |-> Omitted, parameters |-> Omitted, partition_key |-> Omitted,
     kwargs |-> {}, container |-> [form |-> "name", id |-> ""],
     database |-> [form |-> "name", id |-> ""], azure_credentials |-> ""]

NoJob == [state |-> "none", ctx |-> "none"]

\* The argument lists a caller may pass to each task.
QueryCalls ==
    [op : {"query"}, arg : Args, parameters : ParameterLists \cup {Omitted},
     partition_key : PartitionKeys \cup {Omitted}, kwargs : KwargSets,
     container : ContainerRefs, database : DatabaseRefs, azure_credentials : Credentials]

ReadCalls ==
    [op : {"read"}, arg : Args, parameters : {Omitted},
     partition_key : PartitionKeys \cup {Omitted}, kwargs : KwargSets,
     container : ContainerRefs, database : DatabaseRefs, azure_credentials : Credentials]

CreateCalls ==
    [op : {"create"}, arg : Args, parameters : {Omitted},
     partition_key : {Omitted}, kwargs : KwargSets,
     container : ContainerRefs, database : DatabaseRefs, azure_credentials : Credentials]

Calls == QueryCalls \cup ReadCalls \cup CreateCalls

\* The calls of an overlapping run all name the same container with the same
\* credentials; they differ in the task called and in the partition key.
OverlapCalls ==
    {c \in Calls :
        /\ c.arg = "item-1"
        /\ c.parameters = Omitted
        /\ c.partition_key # "pk-2"
        /\ c.kwargs = {}
        /\ c.container.form = "name"
        /\ c.database.form = "name"
        /\ c.azure_credentials = "azure_credentials"}

CallsOf(r) == IF r = "single" THEN Calls ELSE OverlapCalls

TasksOf(r) == IF r = "single" THEN {1} ELSE Tasks

InitCredState == [c \in Credentials |-> [connection_string |-> "secret of " \o c]]

Init ==
    /\ pc = [t \in Tasks |-> "idle"]
    /\ call = [t \in Tasks |-> NoCall]
    /\ trace = [t \in Tasks |-> <<>>]
    /\ job = [t \in Tasks |-> NoJob]
    /\ result = [t \in Tasks |-> NoResult]
    /\ loop = 0
    /\ credState = InitCredState
    /\ run \in {"single", "overlapping"}

\* ---- Call binding (the def lines: 25-33, 100-107, 170-176) ----

\* Parameters without a default: the call fails when one is missing.
Required(op) ==
    IF op = "read"
    THEN {"arg", "partition_key", "container", "database", "azure_credentials"}
    ELSE {"arg", "container", "database", "azure_credentials"}

\* Parameters with a default (only cosmos_db_query_items has any: both None).
Defaulted(op) == IF op = "query" THEN {"parameters", "partition_key"} ELSE {}

\* The callers modelled always pass container, database and azure_credentials.
Missing(c, p) == p \in {"arg", "parameters", "partition_key"} /\ c[p] = Omitted

BindError(c) == \E p \in Required(c.op) : Missing(c, p)

\* The local variables of the function body after the call is bound.
Bind(c) ==
    [p \in DOMAIN c |-> IF p \in Defaulted(c.op) /\ Missing(c, p) THEN None ELSE c[p]]

\* ---- _get_container_client (lines 14-21) ----

Invocation(method, on, pos, kw, ctx, out) ==
    [method |-> method, on |-> on, pos |-> pos, kw |-> kw, ctx |-> ctx, out |-> out]

\* azure_credentials.get_client(): a new CosmosClient built from the block's
\* connection string; the block itself is left as it was.
get_client(t, cs, azure_credentials) ==
    [client |-> [kind |-> "CosmosClient",
                 connection_string |-> cs[azure_credentials].connection_string,
                 obj |-> t],
     creds |-> cs]

\* cosmos_db_client.get_database_client(database): a new DatabaseProxy.
DatabaseProxy(cosmos_db_client, database) ==
    [kind |-> "DatabaseProxy", client |-> cosmos_db_client, database |-> database]

\* database_client.get_container_client(container): a new ContainerProxy.
ContainerProxy(database_client, container) ==
    [kind |-> "ContainerProxy", database_client |-> database_client,
     container |-> container]

\* Variant: the helper looks at the form of a reference and passes on its id.
_get_container_client_by_id(t, cs, azure_credentials, container, database, failAt, e) ==
    LET g == get_client(t, cs, azure_credentials)
        cosmos_db_client == g.client
        database_id == [form |-> "name", id |-> database.id]
        container_id == [form |-> "name", id |-> container.id]
        database_client == DatabaseProxy(cosmos_db_client, database_id)
        container_client == ContainerProxy(database_client, container_id)
        lookups ==
            << Invocation("get_client",
                          [kind |-> "CosmosDbAzureCredentials", name |-> azure_credentials],
                          <<>>, {}, "loop", Returned(cosmos_db_client)),
               Invocation("get_database_client", cosmos_db_client, <<database_id>>, {},
                          "loop", Returned(database_client)),
               Invocation("get_container_client", database_client, <<container_id>>, {},
                          "loop", Returned(container_client)) >>
    IN  IF failAt = 0
        THEN [calls |-> lookups, out |-> Returned(container_client), creds |-> g.creds]
        ELSE [calls |-> SubSeq(lookups, 1, failAt - 1)
                          \o <<[lookups[failAt] EXCEPT !.out = Raised(e)]>>,
              out |-> Raised(e),
              creds |-> IF failAt = 1 THEN cs ELSE g.creds]

\* The helper as called by task t with credentials state cs.  failAt names the
\* lookup that raises (0: none) and e the error it raises; both are the
\* environment's choice.  The value is the invocations made, in order, the
\* helper's outcome and the credentials state it leaves.
_get_container_client(t, cs, azure_credentials, container, database, failAt, e) ==
    LET g == get_client(t, cs, azure_credentials)
        cosmos_db_client == g.client
        database_client == DatabaseProxy(cosmos_db_client, database)
        container_client == ContainerProxy(database_client, container)
        lookups ==
            << Invocation("get_client",
                          [kind |-> "CosmosDbAzureCredentials", name |-> azure_credentials],
                          <<>>, {}, "loop", Returned(cosmos_db_client)),
               Invocation("get_database_client", cosmos_db_client, <<database>>, {},
                          "loop", Returned(database_client)),
               Invocation("get_container_client", database_client, <<container>>, {},
                          "loop", Returned(container_client)) >>
    IN  IF failAt = 0
        THEN [calls |-> lookups, out |-> Returned(container_client), creds |-> g.creds]
        ELSE [calls |-> SubSeq(lookups, 1, failAt - 1)
                          \o <<[lookups[failAt] EXCEPT !.out = Raised(e)]>>,
              out |-> Raised(e),
              creds |-> IF failAt = 1 THEN cs ELSE g.creds]

\* ---- functools.partial objects built by the tasks ----

\* Variant: the partition key is passed on as a keyword option.
query_items_with_partition_key(container_client, b) ==
    [method |-> "query_items", on |-> container_client, pos |-> <<b.arg>>,
     kw |-> {<<"parameters", b.parameters>>, <<"partition_key", b.partition_key>>}
              \cup b.kwargs]

\* Variant: the keyword options are not passed on.
query_items_without_kwargs(container_client, b) ==
    [method |-> "query_items", on |-> container_client, pos |-> <<b.arg>>,
     kw |-> {<<"parameters", b.parameters>>}]

\* partial(container_client.query_items, query, parameters=parameters, **kwargs)
query_items(container_client, b) ==
    [method |-> "query_items", on |-> container_client, pos |-> <<b.arg>>,
     kw |-> {<<"parameters", b.parameters>>} \cup b.kwargs]

\* Variant: item and partition key are passed in the wrong order.
read_item_swapped(container_client, b) ==
    [method |-> "read_item", on |-> container_client,
     pos |-> <<b.partition_key, b.arg>>, kw |-> b.kwargs]

\* partial(container_client.read_item, item, partition_key, **kwargs)
read_item(container_client, b) ==
    [method |-> "read_item", on |-> container_client,
     pos |-> <<b.arg, b.partition_key>>, kw |-> b.kwargs]

\* Variant: the body is upserted instead of created.
create_item_as_upsert(container_client, b) ==
    [method |-> "upsert_item", on |-> container_client, pos |-> <<b.arg>>,
     kw |-> b.kwargs]

\* partial(container_client.create_item, body, **kwargs)
create_item(container_client, b) ==
    [method |-> "create_item", on |-> container_client, pos |-> <<b.arg>>,
     kw |-> b.kwargs]

\* Variant: fn is called where the task runs.
run_inline(fn) == [state |-> "queued", ctx |-> "loop", fn |-> fn]

\* to_thread.run_sync(fn): fn is queued for a worker thread.
run_sync(fn) == [state |-> "queued", ctx |-> "worker", fn |-> fn]

\* logger.info(...) at the top of each task.
LogInfo(b) ==
    Invocation("logger.info", [kind |-> "Logger"], <<b.container, b.database>>, {},
               "loop", Returned(None))

\* ---- Actions ----

\* A caller invokes a task with some arguments c.  Calls are numbered in the
\* order they are made.  A call that cannot be bound raises TypeError before the
\* body runs; otherwise the body starts on the cooperative context.
Call(t) ==
    /\ pc[t] = "idle"
    /\ loop = 0
    /\ t \in TasksOf(run)
    /\ \A u \in Tasks : u < t => pc[u] # "idle"
    /\ \E c \in CallsOf(run) :
         /\ call' = [call EXCEPT ![t] = c]
         /\ IF BindError(c)
            THEN /\ pc' = [pc EXCEPT ![t] = "raised"]
                 /\ result' = [result EXCEPT ![t] = Raised("TypeError")]
                 /\ loop' = 0
            ELSE /\ pc' = [pc EXCEPT ![t] = "running"]
                 /\ result' = result
                 /\ loop' = t
    /\ UNCHANGED <<trace, job, credState, run>>

\* The part of a task body up to its await: log, resolve the container client
\* (outcome r), then either raise the resolution's error or suspend on the
\* dispatched job j.  A job run on the cooperative context keeps it; a job on a
\* worker thread frees it.
RunToAwait(t, b, r, j) ==
    /\ trace' = [trace EXCEPT ![t] = <<LogInfo(b)>> \o r.calls]
    /\ credState' = r.creds
    /\ IF r.out.kind = "raise"
       THEN /\ pc' = [pc EXCEPT ![t] = "raised"]
            /\ result' = [result EXCEPT ![t] = r.out]
            /\ job' = job
            /\ loop' = 0
       ELSE /\ pc' = [pc EXCEPT ![t] = "awaiting"]
            /\ result' = result
            /\ job' = [job EXCEPT ![t] = j]
            /\ loop' = IF j.ctx = "loop" THEN t ELSE 0
    /\ UNCHANGED <<call, run>>

\* cosmos_db_query_items, lines 88-95.
cosmos_db_query_items(t) ==
    /\ pc[t] = "running"
    /\ call[t].op = "query"
    /\ \E failAt \in 0..3, e \in Errors :
         LET b == Bind(call[t])
             r == _get_container_client(t, credState, b.azure_credentials, b.container,
                                     b.database, failAt, e)
         IN  RunToAwait(t, b, r, run_sync(query_items(r.out.val, b)))

\* Variant: a container client another call looked up for the same container
\* is used again instead of looking one up.
cosmos_db_read_item_cached(t) ==
    /\ pc[t] = "running"
    /\ call[t].op = "read"
    /\ \E failAt \in 0..3, e \in Errors :
         LET b == Bind(call[t])
             cached == {u \in Tasks :
                          /\ job[u].state # "none"
                          /\ call[u].container = b.container
                          /\ call[u].database = b.database
                          /\ call[u].azure_credentials = b.azure_credentials}
             r == IF cached # {}
                  THEN [calls |-> <<>>,
                        out |-> Returned(job[CHOOSE u \in cached : TRUE].fn.on),
                        creds |-> credState]
                  ELSE _get_container_client(t, credState, b.azure_credentials,
                                             b.container, b.database, failAt, e)
         IN  RunToAwait(t, b, r, run_sync(read_item(r.out.val, b)))

\* cosmos_db_read_item, lines 154-165.
cosmos_db_read_item(t) ==
    /\ pc[t] = "running"
    /\ call[t].op = "read"
    /\ \E failAt \in 0..3, e \in Errors :
         LET b == Bind(call[t])
             r == _get_container_client(t, credState, b.azure_credentials, b.container,
                                     b.database, failAt, e)
         IN  RunToAwait(t, b, r, run_sync(read_item(r.out.val, b)))

\* Variant: create_item is called directly, where the task runs.
cosmos_db_create_item_direct(t) ==
    /\ pc[t] = "running"
    /\ call[t].op = "create"
    /\ \E failAt \in 0..3, e \in Errors :
         LET b == Bind(call[t])
             r == _get_container_client(t, credState, b.azure_credentials, b.container,
                                        b.database, failAt, e)
         IN  RunToAwait(t, b, r, [state |-> "queued", ctx |-> "loop",
                                  fn |-> create_item(r.out.val, b)])

\* cosmos_db_create_item, lines 230-239.
cosmos_db_create_item(t) ==
    /\ pc[t] = "running"
    /\ call[t].op = "create"
    /\ \E failAt \in 0..3, e \in Errors :
         LET b == Bind(call[t])
             r == _get_container_client(t, credState, b.azure_credentials, b.container,
                                     b.database, failAt, e)
         IN  RunToAwait(t, b, r, run_sync(create_item(r.out.val, b)))

\* A thread takes the queued job and invokes the partial.
WorkerStart(t) ==
    /\ job[t].state = "queued"
    /\ job' = [job EXCEPT ![t].state = "running"]
    /\ trace' = [trace EXCEPT ![t] =
                   Append(@, Invocation(job[t].fn.method, job[t].fn.on, job[t].fn.pos,
                                        job[t].fn.kw, job[t].ctx, Pending))]
    /\ UNCHANGED <<pc, call, result, loop, credState, run>>

\* The service method returns a value or raises.
WorkerFinish(t) ==
    /\ job[t].state = "running"
    /\ \E out \in {Returned(v) : v \in Results} \cup {Raised(e) : e \in Errors} :
         trace' = [trace EXCEPT ![t][Len(trace[t])].out = out]
    /\ job' = [job EXCEPT ![t].state = "finished"]
    /\ UNCHANGED <<pc, call, result, loop, credState, run>>

\* Variant: a job that raised is run once more.
ResumeRetrying(t) ==
    /\ pc[t] = "awaiting"
    /\ job[t].state = "finished"
    /\ loop = 0
    /\ LET out == trace[t][Len(trace[t])].out
       IN  IF out.kind = "raise" /\ Len(trace[t]) < 6
           THEN /\ job' = [job EXCEPT ![t].state = "queued"]
                /\ UNCHANGED <<pc, result>>
           ELSE /\ result' = [result EXCEPT ![t] = out]
                /\ pc' = [pc EXCEPT ![t] =
                            IF out.kind = "raise" THEN "raised" ELSE "returned"]
                /\ job' = job
    /\ UNCHANGED <<call, trace, loop, credState, run>>

\* Variant: an error of the job is wrapped before it reaches the caller.
ResumeWrappingErrors(t) ==
    /\ pc[t] = "awaiting"
    /\ job[t].state = "finished"
    /\ loop = 0
    /\ LET out == trace[t][Len(trace[t])].out
       IN  /\ result' = [result EXCEPT ![t] =
                           IF out.kind = "raise" THEN Raised("RuntimeError") ELSE out]
           /\ pc' = [pc EXCEPT ![t] = IF out.kind = "raise" THEN "raised" ELSE "returned"]
    /\ UNCHANGED <<call, trace, job, loop, credState, run>>

\* The awaiting task is resumed with the job's outcome (lines 95-96, 165-166,
\* 239-240): the value is returned, an error is re-raised in the task.
Resume(t) ==
    /\ pc[t] = "awaiting"
    /\ job[t].state = "finished"
    /\ loop = 0
    /\ LET out == trace[t][Len(trace[t])].out
       IN  /\ result' = [result EXCEPT ![t] = out]
           /\ pc' = [pc EXCEPT ![t] = IF out.kind = "raise" THEN "raised" ELSE "returned"]
    /\ UNCHANGED <<call, trace, job, loop, credState, run>>

Next ==
    \/ \E t \in Tasks : Call(t)
    \/ \E t \in Tasks : cosmos_db_query_items(t)
    \/ \E t \in Tasks : cosmos_db_read_item(t)
    \/ \E t \in Tasks : cosmos_db_create_item(t)
    \/ \E t \in Tasks : WorkerStart(t)
    \/ \E t \in Tasks : WorkerFinish(t)
    \/ \E t \in Tasks : Resume(t)

Spec == Init /\ [][Next]_vars

\* ---- Vocabulary of the properties ----

Done(t) == pc[t] \in {"returned", "raised"}

\* The invocations of call t on its container client (the service calls).
ItemCalls(t) ==
    {i \in DOMAIN trace[t] :
        trace[t][i].method \notin
            {"logger.info", "get_client", "get_database_client", "get_container_client"}}

LastOut(t) == trace[t][Len(trace[t])].out

\* Handle h was looked up with exactly the credentials, database and container of c.
ResolvedFrom(h, c) ==
    /\ h.kind = "ContainerProxy"
    /\ h.container = c.container
    /\ h.database_client.kind = "DatabaseProxy"
    /\ h.database_client.database = c.database
    /\ h.database_client.client.kind = "CosmosClient"
    /\ h.database_client.client.connection_string
         = InitCredState[c.azure_credentials].connection_string

\* The caller of t got the value the service method returned.
ReturnsServiceValue(t) ==
    pc[t] = "returned" =>
        /\ ItemCalls(t) = {Len(trace[t])}
        /\ LastOut(t).kind = "return"
        /\ result[t] = LastOut(t)

\* ---- C1 ----
\* C1: every service call made for a cosmos_db_query_items call is query_items,
\* invoked with the call's query, its parameters value (None when not given) and
\* its keyword options and nothing else, on the container client looked up from
\* the call's credentials, database and container; a call that returns, returns
\* the value query_items returned.
C1_QueryForwarded ==
    \A t \in Tasks :
        call[t].op = "query" =>
            /\ \A i \in ItemCalls(t) :
                 /\ trace[t][i].method = "query_items"
                 /\ trace[t][i].pos = <<call[t].arg>>
                 /\ trace[t][i].kw =
                      {<<"parameters", IF call[t].parameters = Omitted
                                       THEN None ELSE call[t].parameters>>}
                        \cup call[t].kwargs
                 /\ ResolvedFrom(trace[t][i].on, call[t])
            /\ ReturnsServiceValue(t)

C1_Witness ==
    \E t \in Tasks :
        /\ call[t].op = "query"
        /\ pc[t] = "returned"
        /\ call[t].parameters = "[@age=44]"
        /\ call[t].kwargs # {}
        /\ call[t].azure_credentials = "other_credentials"
        /\ result[t] = Returned("result-2")

\* ---- C2 ----
\* C2: every service call made for a cosmos_db_read_item call is read_item,
\* invoked with the call's item and partition key, in that order, and its keyword
\* options, on the looked-up container client; a call that returns, returns the
\* value read_item returned; a call without a partition key raises TypeError and
\* makes no invocation at all.
C2_ReadForwarded ==
    \A t \in Tasks :
        call[t].op = "read" =>
            /\ \A i \in ItemCalls(t) :
                 /\ trace[t][i].method = "read_item"
                 /\ trace[t][i].pos = <<call[t].arg, call[t].partition_key>>
                 /\ trace[t][i].kw = call[t].kwargs
                 /\ ResolvedFrom(trace[t][i].on, call[t])
            /\ ReturnsServiceValue(t)
            /\ call[t].partition_key = Omitted =>
                 /\ pc[t] = "raised"
                 /\ result[t] = Raised("TypeError")
                 /\ trace[t] = <<>>
                 /\ job[t] = NoJob

C2_Witness ==
    \E t, u \in Tasks :
        /\ call[t].op = "read"
        /\ pc[t] = "returned"
        /\ call[t].partition_key = "pk-1"
        /\ call[u].op = "read"
        /\ call[u].partition_key = Omitted
        /\ pc[u] = "raised"

C4_ErrorsPropagate ==
    \A t \in Tasks :
        \A i \in DOMAIN trace[t] :
            trace[t][i].out.kind = "raise" =>
                /\ pc[t] \in {"awaiting", "raised"}
                /\ result[t].kind # "return"
                /\ pc[t] = "raised" =>
                     /\ result[t].kind = "raise"
                     /\ result[t].val = trace[t][i].out.val

C4_Witness ==
    \E t, u \in Tasks :
        /\ pc[t] = "raised"
        /\ Len(trace[t]) = 3
        /\ trace[t][3].method = "get_database_client"
        /\ result[t] = Raised("CosmosHttpResponseError")
        /\ pc[u] = "raised"
        /\ ItemCalls(u) # {}
        /\ result[u] = Raised("CosmosResourceNotFoundError")

\* ---- C5 ----
\* C5: in a query or read call the service method runs on a worker thread; while
\* the job is queued or running the task is suspended and does not hold the
\* cooperative context; a call that was dispatched is over only when its job has
\* finished.
C5_QueryReadOffloaded ==
    \A t \in Tasks :
        call[t].op \in {"query", "read"} =>
            /\ \A i \in ItemCalls(t) : trace[t][i].ctx = "worker"
            /\ job[t].state \in {"queued", "running"} =>
                 /\ job[t].ctx = "worker"
                 /\ pc[t] = "awaiting"
                 /\ loop # t
            /\ (Done(t) /\ job[t].state # "none") => job[t].state = "finished"
            /\ pc[t] = "returned" => job[t].state = "finished"

\* Another task runs on the cooperative context while a query or read job runs.
C5_Witness ==
    \E t, u \in Tasks :
        /\ call[t].op \in {"query", "read"}
        /\ job[t].state = "running"
        /\ u # t
        /\ loop = u
        /\ pc[u] = "running"

C7_NoRetry ==
    \A t \in Tasks :
        /\ Cardinality(ItemCalls(t)) <= 1
        /\ \A i \in ItemCalls(t) :
             trace[t][i].out.kind = "raise" =>
                 /\ i = Len(trace[t])
                 /\ job[t].state = "finished"

C7_Witness ==
    \E t \in Tasks :
        /\ pc[t] = "raised"
        /\ Cardinality(ItemCalls(t)) = 1
        /\ LastOut(t).kind = "raise"

\* ---- C8 ----
\* C8: a call that reaches its service call has made, after logging, exactly one
\* get_client, one get_database_client on that client and one
\* get_container_client on that database client, in this order; the service call
\* comes after them, on the container client that get_container_client returned;
\* no lookup is made twice in a call, and no two calls use the same container
\* client.
C8_ResolvedOncePerCall ==
    \A t \in Tasks :
        /\ \A m \in {"get_client", "get_database_client", "get_container_client"} :
             Cardinality({i \in DOMAIN trace[t] : trace[t][i].method = m}) <= 1
        /\ job[t].state # "none" =>
             /\ Len(trace[t]) >= 4
             /\ trace[t][2].method = "get_client"
             /\ trace[t][3].method = "get_database_client"
             /\ trace[t][4].method = "get_container_client"
             /\ \A i \in 2..4 : trace[t][i].out.kind = "return"
             /\ trace[t][3].on = trace[t][2].out.val
             /\ trace[t][4].on = trace[t][3].out.val
             /\ job[t].fn.on = trace[t][4].out.val
             /\ \A i \in ItemCalls(t) : i > 4 /\ trace[t][i].on = trace[t][4].out.val
             /\ \A u \in Tasks \ {t} :
                  job[u].state # "none" => job[u].fn.on # job[t].fn.on

\* Two calls with the same credentials, database and container have both
\* invoked their service method.
C8_Witness ==
    \E t, u \in Tasks :
        /\ t # u
        /\ ItemCalls(t) # {}
        /\ ItemCalls(u) # {}
        /\ call[t].op = "read"
        /\ call[u].op = "read"
        /\ call[t].container = call[u].container
        /\ call[t].database = call[u].database
        /\ call[t].azure_credentials = call[u].azure_credentials

\* ---- C9 ----
\* C9: whatever the form of the references, get_database_client receives the
\* call's database reference and get_container_client the call's container
\* reference, as passed; a call fails before its service call only with an error
\* a lookup raised; and the credentials blocks stay as they were.
C9_ReferencesForwardedOpaquely ==
    /\ credState = InitCredState
    /\ \A t \in Tasks :
         /\ \A i \in DOMAIN trace[t] :
              /\ trace[t][i].method = "get_client" =>
                   /\ trace[t][i].on.name = call[t].azure_credentials
                   /\ trace[t][i].pos = <<>>
              /\ trace[t][i].method = "get_database_client" =>
                   trace[t][i].pos = <<call[t].database>>
              /\ trace[t][i].method = "get_container_client" =>
                   trace[t][i].pos = <<call[t].container>>
         /\ (pc[t] = "raised" /\ job[t].state = "none" /\ ~BindError(call[t])) =>
              LastOut(t) = result[t]

C9_Witness ==
    \E t \in Tasks :
        /\ call[t].container.form = "proxy"
        /\ call[t].database.form = "properties"
        /\ job[t].state # "none"
        /\ trace[t][4].method = "get_container_client"

====
